---- MODULE Spec2Model ----
(***************************************************************************)
(* The command line entry point of lungmask (src/lungmask/__main__.py):    *)
(* argument parsing, construction of the inferer, the directory fan-out    *)
(* (sequential or through a multiprocessing Pool) and process_one_sample   *)
(* with its DICOM tag handling.  Paths are sequences of path components,   *)
(* the file system is a function from the existing paths to their entries. *)
(***************************************************************************)
EXTENDS Integers, Sequences, FiniteSets, TLC

VARIABLES
    args,                \* the parsed command line (immutable)
    DICOM_tags_to_keep,  \* what utils.get_DICOM_tags_to_keep() returns (fixed)
    fs,                  \* the file system: path -> [kind, tags]
    fs0,                 \* the file system the process was started on
    pc,                  \* position of main()
    error,               \* why the process ended unsuccessfully, or "none"
    batchsize,           \* local of main, line 88
    keepmetadata,        \* local of main, line 93
    inferer,             \* << >> until LMInferer(...) returned, then <<object>>
    listing,             \* the list os.listdir(args.input) returned
    idx,                 \* position of the for loop over the listing
    pool,                \* "none", "open" or "terminated"
    tasks,               \* the AsyncResults, in submission order
    awaited,             \* indices of the tasks whose get() has returned or raised
    samples              \* log of the process_one_sample calls that ended

vars == <<args, DICOM_tags_to_keep, fs, fs0, pc, error, batchsize, keepmetadata,
          inferer, listing, idx, pool, tasks, awaited, samples>>

----------------------------------------------------------------------------
(* Bounds of the model *)

\* number of regular files the input directory may hold
MaxFiles == 2

----------------------------------------------------------------------------
(* Program constants *)

\* default of --batchsize
DefaultBatchsize == 20

\* default of --pool
DefaultPool == 0

\* choices of --modelname
ModelNames == {"R231", "LTRCLobes", "LTRCLobes_R231", "R231CovidWeb"}

SeriesDescriptionTag == "0008|103e"
WindowCenterTag == "0028|1050"
WindowWidthTag == "0028|1051"

\* the three tags process_one_sample sets itself
ForcedTags == {SeriesDescriptionTag, WindowCenterTag, WindowWidthTag}

ForcedValue(key) ==
    CASE key = SeriesDescriptionTag -> "Created with lungmask"
      [] key = WindowCenterTag -> "1"
      [] key = WindowWidthTag -> "2"

----------------------------------------------------------------------------
(* Inputs the model draws from *)

NamePool == <<"a.nii", "b.nii", "c.nii", "d.nii", "e.nii">>

FileNames == {NamePool[i] : i \in 1..MaxFiles}

InDir == <<"in">>
SubDir == <<"in", "sub">>
FirstFile == <<"in", NamePool[1]>>

InputArgs == {InDir, FirstFile, <<"missing">>}

OutputArgs == {<<"out">>, InDir, SubDir, FirstFile, <<"out", "masks">>}

BatchSizes == {1, DefaultBatchsize, 50}

PoolSizes == {DefaultPool, 1, 2, 4}

ModelPaths == {"None", "weights.pth"}

\* metadata keys: patient name, a private tag and the three forced tags
TagKeys == {"0010|0010", "0009|0010"} \cup ForcedTags

NoTag == "<absent>"

TagValues == {"1", "400", NoTag}

\* an image without metadata
NoTags == [k \in TagKeys |-> NoTag]

\* the metadata dictionaries the scans are drawn from: every key maps to its
\* value or NoTag; only the window center also takes the value the code forces
TagMaps == {m \in [TagKeys -> TagValues] : \A k \in TagKeys : m[k] = "1" => k = WindowCenterTag}

GetMetaDataKeys(image) == {k \in TagKeys : image[k] # NoTag}

\* the tags of the scans of the input directory when the tags are not varied
DefaultTags == [k \in TagKeys |-> IF k = SeriesDescriptionTag THEN NoTag ELSE "400"]

DefaultTagsToKeep == {"0010|0010"}

Dir == [kind |-> "dir", tags |-> NoTags]

File(t) == [kind |-> "file", tags |-> t]

\* a file system holding the input directory with the given scans
FileSystem(names, withSub, t) ==
    [p \in {<< >>, InDir} \cup {<<"in", n>> : n \in names}
           \cup (IF withSub THEN {SubDir} ELSE {})
       |-> IF p \in {<< >>, InDir, SubDir} THEN Dir ELSE File(t)]

DefaultArgs ==
    [input |-> InDir, output |-> <<"out">>, modelname |-> "R231",
     modelpath |-> "None", cpu |-> FALSE, nopostprocess |-> FALSE,
     batchsize |-> DefaultBatchsize, pool |-> DefaultPool,
     noprogress |-> FALSE, removemetadata |-> FALSE]

----------------------------------------------------------------------------
(* os.path and os *)

join(dir, filename) == Append(dir, filename)

split(p) == <<SubSeq(p, 1, Len(p) - 1), p[Len(p)]>>

exists(fsx, p) == p \in DOMAIN fsx

isdir(fsx, p) == p \in DOMAIN fsx /\ fsx[p].kind = "dir"

\* the names os.listdir(dir) returns, as a set
Children(fsx, dir) ==
    {p[Len(p)] : p \in {q \in DOMAIN fsx : Len(q) = Len(dir) + 1
                                           /\ SubSeq(q, 1, Len(dir)) = dir}}

\* every order os.listdir may return the names in
Orderings(S) ==
    {s \in [1..Cardinality(S) -> S] : \A i, j \in 1..Cardinality(S) : i # j => s[i] # s[j]}

Prefixes(p) == {SubSeq(p, 1, n) : n \in 0..Len(p)}

\* os.makedirs(p, exist_ok=True) raises when p or one of its parents is a file
makedirsFails(fsx, p) ==
    \E q \in Prefixes(p) : q \in DOMAIN fsx /\ fsx[q].kind # "dir"

makedirs(fsx, p) ==
    [q \in DOMAIN fsx \cup Prefixes(p) |-> IF q \in DOMAIN fsx THEN fsx[q] ELSE Dir]

----------------------------------------------------------------------------
(* lungmask.utils *)

\* utils.load_input_image(path, read_metadata): the metadata of the image read
load_input_image(fsx, input, read_metadata) ==
    IF read_metadata THEN fsx[input].tags ELSE NoTags

\* utils.get_DICOM_tags_to_keep(): a fixed set of tag identifiers
get_DICOM_tags_to_keep == DICOM_tags_to_keep

----------------------------------------------------------------------------
(* process_one_sample *)

\* a bug of line 163: every tag of the input image is copied
CopiedTagsUnfiltered(input_image, tags_to_keep) ==
    [k \in TagKeys |-> input_image[k]]

\* lines 162-164: the tags copied from the input image
CopiedTags(input_image, tags_to_keep) ==
    [k \in TagKeys |->
        IF k \in GetMetaDataKeys(input_image) /\ k \in tags_to_keep
        THEN input_image[k] ELSE NoTag]

\* a bug of lines 167-171: a tag the image already carries is left alone
SetFixedTagsIfAbsent(image) ==
    [k \in TagKeys |->
        IF k \in ForcedTags /\ image[k] = NoTag THEN ForcedValue(k) ELSE image[k]]

\* lines 166-171: series description, window center and window width
SetFixedTags(image) ==
    [k \in TagKeys |-> IF k \in ForcedTags THEN ForcedValue(k) ELSE image[k]]

\* lines 151-171: the metadata of result_out when it is handed to the writer
ResultMetaData(input_image, keep, tags_to_keep) ==
    IF keep THEN SetFixedTags(CopiedTags(input_image, tags_to_keep)) ELSE NoTags

\* writer.Execute can only write below an existing directory and not over one
CanWrite(fsx, output) ==
    /\ Len(output) > 0
    /\ isdir(fsx, split(output)[1])
    /\ ~isdir(fsx, output)

\* line 173: the file system after writer.Execute(result_out)
Execute(fsx, output, result_out) ==
    [p \in DOMAIN fsx \cup {output} |-> IF p = output THEN File(result_out) ELSE fsx[p]]

\* what one call of process_one_sample may do: return, or raise in
\* load_input_image, or raise later (inferer.apply, the writer)
Outcomes == {"returns", "load raises", "write raises"}

\* line 147 returns an image
Loads(fsx, input, outcome) ==
    outcome # "load raises" /\ exists(fsx, input) /\ ~isdir(fsx, input)

\* lines 150-173 return
Writes(fsx, output, outcome) == outcome = "returns" /\ CanWrite(fsx, output)

\* the record of one call of process_one_sample
Sample(input, output, input_image, result_out, ok) ==
    [input |-> input, output |-> output, input_image |-> input_image,
     result_out |-> result_out, keepmetadata |-> keepmetadata, written |-> ok]

\* lines 146-173 run in one piece by the main process
process_one_sample(fsx, input, output, outcome) ==
    LET loaded == Loads(fsx, input, outcome)
        input_image == IF loaded THEN load_input_image(fsx, input, keepmetadata) ELSE NoTags
        wrote == loaded /\ Writes(fsx, output, outcome)
        result_out == IF wrote
                      THEN ResultMetaData(input_image, keepmetadata, get_DICOM_tags_to_keep)
                      ELSE NoTags
    IN  Sample(input, output, input_image, result_out, wrote)

----------------------------------------------------------------------------
(* Initial states *)

InitRun(a, files, keep) ==
    /\ args = a
    /\ fs = files
    /\ fs0 = files
    /\ DICOM_tags_to_keep = keep
    /\ pc = "parse"
    /\ error = "none"
    /\ batchsize = 0
    /\ keepmetadata = TRUE
    /\ inferer = << >>
    /\ listing = << >>
    /\ idx = 1
    /\ pool = "none"
    /\ tasks = << >>
    /\ awaited = << >>
    /\ samples = << >>

\* every combination of the options that configure the inferer
InitOptions ==
    \E i \in InputArgs, m \in ModelNames, mp \in ModelPaths, c \in BOOLEAN,
       b \in BatchSizes, np \in BOOLEAN, ng \in BOOLEAN :
        InitRun([DefaultArgs EXCEPT !.input = i, !.modelname = m, !.modelpath = mp,
                                    !.cpu = c, !.batchsize = b, !.nopostprocess = np,
                                    !.noprogress = ng],
                FileSystem({NamePool[1]}, TRUE, DefaultTags), DefaultTagsToKeep)

\* every input directory, output argument and pool size
InitFiles ==
    \E i \in InputArgs, o \in OutputArgs, p \in PoolSizes,
       names \in SUBSET FileNames, withSub \in BOOLEAN :
        InitRun([DefaultArgs EXCEPT !.input = i, !.output = o, !.pool = p],
                FileSystem(names, withSub, DefaultTags), DefaultTagsToKeep)

\* every metadata dictionary of the scan and every set of tags to keep
InitTags ==
    \E i \in {InDir, FirstFile}, p \in {DefaultPool, 2}, r \in BOOLEAN,
       t \in TagMaps, keep \in SUBSET TagKeys :
        InitRun([DefaultArgs EXCEPT !.input = i, !.pool = p, !.removemetadata = r,
                                    !.output = IF i = InDir THEN <<"out">> ELSE <<"out.nii">>],
                FileSystem({NamePool[1]}, FALSE, t), keep)

Init == InitOptions \/ InitFiles \/ InitTags

----------------------------------------------------------------------------
(* main *)

\* lines 85-93 with path() of lines 14-18: parse the arguments; a missing
\* input path ends the process in sys.exit
ParseArgs ==
    /\ pc = "parse"
    /\ IF exists(fs, args.input)
       THEN /\ batchsize' = (IF args.cpu THEN 1 ELSE args.batchsize)
            /\ keepmetadata' = ~args.removemetadata
            /\ pc' = "construct"
            /\ error' = error
       ELSE /\ pc' = "exit"
            /\ error' = "File not found"
            /\ UNCHANGED <<batchsize, keepmetadata>>
    /\ UNCHANGED <<args, DICOM_tags_to_keep, fs, fs0, inferer, listing, idx, pool,
                   tasks, awaited, samples>>

\* a bug of line 106: the requested batch size is passed on
LobesInfererRequestedBatch ==
    [modelname |-> "LTRCLobes", modelpath |-> "None", force_cpu |-> args.cpu,
     fillmodel |-> "R231", batch_size |-> args.batchsize,
     volume_postprocessing |-> ~args.nopostprocess, tqdm_disable |-> args.noprogress]

\* lines 102-109
LobesInferer ==
    [modelname |-> "LTRCLobes", modelpath |-> "None", force_cpu |-> args.cpu,
     fillmodel |-> "R231", batch_size |-> batchsize,
     volume_postprocessing |-> ~args.nopostprocess, tqdm_disable |-> args.noprogress]

\* lines 111-118
PlainInferer ==
    [modelname |-> args.modelname, modelpath |-> args.modelpath, force_cpu |-> args.cpu,
     fillmodel |-> "None", batch_size |-> batchsize,
     volume_postprocessing |-> ~args.nopostprocess, tqdm_disable |-> args.noprogress]

\* a bug of lines 99-101: the combination is not checked
ModelpathNotChecked == TRUE

\* line 99-101: the assertion of the LTRCLobes_R231 branch
ModelpathAllowed == args.modelname = "LTRCLobes_R231" => args.modelpath = "None"

\* lines 98-118
ConstructInferer ==
    /\ pc = "construct"
    /\ IF ~ModelpathAllowed
       THEN /\ pc' = "exit"
            /\ error' = "AssertionError"
            /\ inferer' = inferer
       ELSE /\ inferer' = <<IF args.modelname = "LTRCLobes_R231"
                            THEN LobesInferer ELSE PlainInferer>>
            /\ pc' = "resolve"
            /\ error' = error
    /\ UNCHANGED <<args, DICOM_tags_to_keep, fs, fs0, batchsize, keepmetadata, listing,
                   idx, pool, tasks, awaited, samples>>

\* line 122: the directory is handed to a Pool
UsePool == args.pool > 1

\* lines 120-126, 137, 143: directory or single file; for a directory the
\* output directory is made and the directory is listed
ResolveInput ==
    /\ pc = "resolve"
    /\ IF isdir(fs, args.input)
       THEN IF makedirsFails(fs, args.output)
            THEN /\ pc' = "exit"
                 /\ error' = "FileExistsError"
                 /\ UNCHANGED <<fs, listing, pool>>
            ELSE /\ fs' = makedirs(fs, args.output)
                 /\ listing' \in Orderings(Children(fs', args.input))
                 /\ pool' = (IF UsePool THEN "open" ELSE "none")
                 /\ pc' = (IF UsePool THEN "submit" ELSE "sequential")
                 /\ error' = error
       ELSE /\ pc' = "single"
            /\ UNCHANGED <<fs, listing, pool, error>>
    /\ UNCHANGED <<args, DICOM_tags_to_keep, fs0, batchsize, keepmetadata, inferer, idx,
                   tasks, awaited, samples>>

\* a bug of line 130: every mask goes to one file of the output directory
output_path_fixed_name(filename) == join(args.output, "lungmask.nii")

\* line 130 (and 140): where the mask of a file of the directory goes
output_path(filename) == join(args.output, filename)

\* a bug of line 132: the output argument is passed as the output path, as
\* line 143 does for a single file
TaskToOutputArgument(filepath, out) ==
    [input |-> filepath, output |-> args.output, status |-> "queued",
     input_image |-> NoTags]

\* lines 131-132: the AsyncResult of a submitted call
Task(filepath, out) ==
    [input |-> filepath, output |-> out, status |-> "queued", input_image |-> NoTags]

\* Pool.terminate(), which leaving the with block calls: the workers are
\* stopped, whatever they were doing
Terminated(ts) ==
    [i \in 1..Len(ts) |->
        IF ts[i].status \in {"queued", "running"}
        THEN [ts[i] EXCEPT !.status = "terminated"] ELSE ts[i]]

\* lines 127-133: one iteration of the submitting loop, or its end
SubmitNext ==
    /\ pc = "submit"
    /\ IF idx > Len(listing)
       THEN /\ pc' = "await"
            /\ UNCHANGED <<idx, tasks>>
       ELSE LET filename == listing[idx]
                filepath == join(args.input, filename)
            IN  /\ tasks' = IF ~isdir(fs, filepath)
                            THEN Append(tasks, Task(filepath, output_path(filename)))
                            ELSE tasks
                /\ idx' = idx + 1
                /\ pc' = pc
    /\ UNCHANGED <<args, DICOM_tags_to_keep, fs, fs0, error, batchsize, keepmetadata,
                   inferer, listing, pool, awaited, samples>>

\* the workers take the tasks in the order of submission
NextQueued(t) ==
    /\ t \in 1..Len(tasks)
    /\ tasks[t].status = "queued"
    /\ \A u \in 1..(t - 1) : tasks[u].status # "queued"

Running == {t \in 1..Len(tasks) : tasks[t].status = "running"}

\* a free worker takes the next task and runs line 147 of process_one_sample
WorkerLoad(t, outcome) ==
    /\ pool = "open"
    /\ NextQueued(t)
    /\ Cardinality(Running) < args.pool
    /\ IF Loads(fs, tasks[t].input, outcome)
       THEN /\ tasks' = [tasks EXCEPT ![t].status = "running",
                             ![t].input_image =
                                 load_input_image(fs, tasks[t].input, keepmetadata)]
            /\ samples' = samples
       ELSE /\ tasks' = [tasks EXCEPT ![t].status = "failed"]
            /\ samples' = Append(samples,
                   Sample(tasks[t].input, tasks[t].output, NoTags, NoTags, FALSE))
    /\ UNCHANGED <<args, DICOM_tags_to_keep, fs, fs0, pc, error, batchsize, keepmetadata,
                   inferer, listing, idx, pool, awaited>>

\* the worker runs lines 150-173 of process_one_sample
WorkerWrite(t, outcome) ==
    /\ pool = "open"
    /\ t \in Running
    /\ LET wrote == Writes(fs, tasks[t].output, outcome)
           result_out == IF wrote
                         THEN ResultMetaData(tasks[t].input_image, keepmetadata,
                                             get_DICOM_tags_to_keep)
                         ELSE NoTags
       IN  /\ fs' = IF wrote THEN Execute(fs, tasks[t].output, result_out) ELSE fs
           /\ tasks' = [tasks EXCEPT ![t].status = IF wrote THEN "done" ELSE "failed"]
           /\ samples' = Append(samples,
                  Sample(tasks[t].input, tasks[t].output, tasks[t].input_image,
                         result_out, wrote))
    /\ UNCHANGED <<args, DICOM_tags_to_keep, fs0, pc, error, batchsize, keepmetadata,
                   inferer, listing, idx, pool, awaited>>

\* the task whose result line 135 asks for next
AwaitOrder(n) == n

\* a bug of line 135: the result is polled, not waited for
ReadyNotAwaited(task) == TRUE

\* task.get() blocks until the task has ended
Ready(task) == task.status \in {"done", "failed"}

\* a bug of line 135: the exception of the task is swallowed
GetNeverRaises(task) == FALSE

\* task.get() re-raises what the task raised
GetRaises(task) == task.status = "failed"

\* lines 134-135 and the end of the with block: one task.get(), which blocks
\* until the task has ended, or the end of the loop
AwaitNext ==
    /\ pc = "await"
    /\ IF Len(awaited) = Len(tasks)
       THEN /\ pool' = "terminated"
            /\ pc' = "done"
            /\ UNCHANGED <<tasks, awaited, error>>
       ELSE LET t == AwaitOrder(Len(awaited) + 1)
            IN  /\ Ready(tasks[t])
                /\ awaited' = Append(awaited, t)
                /\ IF GetRaises(tasks[t])
                   THEN /\ pool' = "terminated"
                        /\ tasks' = Terminated(tasks)
                        /\ pc' = "exit"
                        /\ error' = "sample failed"
                   ELSE UNCHANGED <<pool, tasks, pc, error>>
    /\ UNCHANGED <<args, DICOM_tags_to_keep, fs, fs0, batchsize, keepmetadata, inferer,
                   listing, idx, samples>>

\* a bug of line 141: the exception is caught and the loop goes on
PropagatesNever(sample) == FALSE

\* line 141 and line 143: an exception of process_one_sample ends main
Propagates(sample) == ~sample.written

\* lines 137-141: one iteration of the sequential loop, or its end
SequentialNext(outcome) ==
    /\ pc = "sequential"
    /\ IF idx > Len(listing)
       THEN /\ pc' = "done"
            /\ UNCHANGED <<idx, fs, samples, error>>
       ELSE LET filename == listing[idx]
                filepath == join(args.input, filename)
            IN  IF isdir(fs, filepath)
                THEN /\ idx' = idx + 1
                     /\ UNCHANGED <<pc, fs, samples, error>>
                ELSE LET s == process_one_sample(fs, filepath, output_path(filename), outcome)
                     IN  /\ samples' = Append(samples, s)
                         /\ fs' = IF s.written THEN Execute(fs, s.output, s.result_out) ELSE fs
                         /\ idx' = idx + 1
                         /\ pc' = IF Propagates(s) THEN "exit" ELSE pc
                         /\ error' = IF Propagates(s) THEN "sample failed" ELSE error
    /\ UNCHANGED <<args, DICOM_tags_to_keep, fs0, batchsize, keepmetadata, inferer,
                   listing, pool, tasks, awaited>>

\* line 143: the input is a single file
SingleSample(outcome) ==
    /\ pc = "single"
    /\ LET s == process_one_sample(fs, args.input, args.output, outcome)
       IN  /\ samples' = Append(samples, s)
           /\ fs' = IF s.written THEN Execute(fs, s.output, s.result_out) ELSE fs
           /\ pc' = IF Propagates(s) THEN "exit" ELSE "done"
           /\ error' = IF Propagates(s) THEN "sample failed" ELSE error
    /\ UNCHANGED <<args, DICOM_tags_to_keep, fs0, batchsize, keepmetadata, inferer,
                   listing, idx, pool, tasks, awaited>>

Next ==
    \/ ParseArgs
    \/ ConstructInferer
    \/ ResolveInput
    \/ SubmitNext
    \/ \E t \in 1..MaxFiles, outcome \in Outcomes : WorkerLoad(t, outcome)
    \/ \E t \in 1..MaxFiles, outcome \in Outcomes : WorkerWrite(t, outcome)
    \/ AwaitNext
    \/ \E outcome \in Outcomes : SequentialNext(outcome)
    \/ \E outcome \in Outcomes : SingleSample(outcome)

Spec == Init /\ [][Next]_vars

----------------------------------------------------------------------------
(* Vocabulary of the properties *)

\* the input argument names a directory
DirectoryInput == isdir(fs0, args.input)

\* the file system os.listdir sees: the one of the start with the output
\* directory made
ListedFileSystem == makedirs(fs0, args.output)

\* the direct children of the input directory that are not directories
InputFileNames ==
    {n \in Children(ListedFileSystem, args.input) :
        ~isdir(ListedFileSystem, join(args.input, n))}

InputSubdirNames ==
    {n \in Children(ListedFileSystem, args.input) :
        isdir(ListedFileSystem, join(args.input, n))}

IsFileName(n) == n \in InputFileNames

\* the non-directory entries in the order of the listing
ListedFiles == SelectSeq(listing, IsFileName)

\* the output paths written so far
WrittenPaths == {samples[i].output : i \in {j \in 1..Len(samples) : samples[j].written}}

WrittenSamples == {i \in 1..Len(samples) : samples[i].written}

Pooled == DirectoryInput /\ pool # "none"

Sequential == DirectoryInput /\ pc \in {"sequential", "done", "exit"} /\ pool = "none"
              /\ error \in {"none", "sample failed"} /\ Len(inferer) = 1

----------------------------------------------------------------------------
(* C1 *)

\* C1: a run over a directory that ends successfully has written exactly one
\* output per non-directory child of the input directory, at
\* <output>/<same name>, and none for a sub-directory; the set of outputs is
\* the same function of the directory and the output argument for every pool
\* size (pooled or sequential) and every order of completion.
C1_OneOutputPerFile ==
    (DirectoryInput /\ pc = "done") =>
        /\ WrittenPaths = {join(args.output, n) : n \in InputFileNames}
        /\ Len(samples) = Cardinality(InputFileNames)
        /\ \A i \in 1..Len(samples) :
              /\ samples[i].written
              /\ samples[i].input = join(args.input, split(samples[i].output)[2])
              /\ exists(fs, samples[i].output) /\ fs[samples[i].output].kind = "file"
        /\ \A n \in InputSubdirNames : join(args.output, n) \notin WrittenPaths

\* a pooled run with 4 workers over two files and a sub-directory ended, the
\* tasks having completed in the reverse order of their submission
C1_Witness ==
    /\ DirectoryInput /\ pc = "done" /\ args.pool = 4
    /\ Len(tasks) = 2 /\ Len(samples) = 2
    /\ InputSubdirNames # {}
    /\ samples[1].input = tasks[2].input

----------------------------------------------------------------------------
(* C2 *)

\* the tasks are the non-directory entries handled so far, one task each, in
\* the order of the listing
OneTaskPerFile ==
    Pooled =>
        LET handled == SelectSeq(SubSeq(listing, 1, idx - 1), IsFileName)
        IN  /\ Len(tasks) = Len(handled)
            /\ \A t \in 1..Len(tasks) :
                  /\ tasks[t].input = join(args.input, handled[t])
                  /\ tasks[t].output = join(args.output, handled[t])
            /\ (pc # "submit" => Len(tasks) = Cardinality(InputFileNames))

\* C2 as stated: in pooled directory mode one task is submitted per
\* non-directory file and the main process does not end before every
\* submitted task has completed.
C2_Original ==
    /\ OneTaskPerFile
    /\ (Pooled /\ pc \in {"done", "exit"}) =>
           \A t \in 1..Len(tasks) : tasks[t].status \in {"done", "failed"}

\* C2 amended: in pooled directory mode one task is submitted per
\* non-directory file; the main process does not end successfully before
\* every submitted task has completed, and it ends unsuccessfully only when
\* the task it awaited has failed, the pool then being terminated whatever
\* the remaining tasks were doing.
C2_WaitsUnlessFailure ==
    /\ OneTaskPerFile
    /\ (Pooled /\ pc = "done") =>
           /\ Len(awaited) = Len(tasks)
           /\ \A t \in 1..Len(tasks) : tasks[t].status = "done"
    /\ (Pooled /\ pc = "exit") =>
           /\ awaited # << >>
           /\ tasks[awaited[Len(awaited)]].status = "failed"
           /\ \A t \in 1..Len(tasks) : tasks[t].status \in {"done", "failed", "terminated"}

\* a pooled run over two files ended successfully
C2_Witness ==
    /\ Pooled /\ pc = "done" /\ Len(tasks) = 2
    /\ \A t \in 1..Len(tasks) : tasks[t].status = "done"

----------------------------------------------------------------------------
(* C3 *)

\* C3: in pooled directory mode a run in which a task has failed never ends
\* successfully; the results are awaited in the order of submission, the
\* error that ends the run is that of the first failed task in that order,
\* every task before it having been awaited and found done, and no result
\* is awaited after it.
C3_FirstAwaitedFailure ==
    Pooled =>
        /\ awaited = [i \in 1..Len(awaited) |-> i]
        /\ Len(awaited) <= Len(tasks)
        /\ ((\E t \in 1..Len(tasks) : tasks[t].status = "failed") => pc # "done")
        /\ \A i \in 1..(Len(awaited) - 1) : tasks[awaited[i]].status = "done"
        /\ (awaited # << >> /\ tasks[Len(awaited)].status = "failed") =>
               pc = "exit" /\ error = "sample failed" /\ pool = "terminated"
        /\ (pc = "exit") =>
               awaited # << >> /\ tasks[Len(awaited)].status = "failed"

\* the second task failed first, the first task failed after it: the run
\* ended on the failure of the first task, the second was never awaited
C3_Witness ==
    /\ Pooled /\ pc = "exit"
    /\ Len(tasks) = 2 /\ awaited = <<1>>
    /\ tasks[1].status = "failed" /\ tasks[2].status = "failed"
    /\ samples[1].input = tasks[2].input

----------------------------------------------------------------------------
(* C4 *)

\* the calls of process_one_sample that wrote an output with the metadata kept
KeptSamples == {i \in WrittenSamples : samples[i].keepmetadata}

\* no tag outside the set of tags to keep is copied: such a tag is either
\* absent from the output or one of the tags the code sets, with the value
\* the code gives it
NothingElseCopied(i) ==
    \A k \in TagKeys \ DICOM_tags_to_keep :
        \/ samples[i].result_out[k] = NoTag
        \/ k \in ForcedTags /\ samples[i].result_out[k] = ForcedValue(k)

\* C4 as stated: with the metadata kept, every key of the input image that is
\* in the set of tags to keep has the identical value on the output, and no
\* key outside that set is copied.
C4_Original ==
    \A i \in KeptSamples :
        /\ \A k \in GetMetaDataKeys(samples[i].input_image) \cap DICOM_tags_to_keep :
              samples[i].result_out[k] = samples[i].input_image[k]
        /\ NothingElseCopied(i)

\* C4 amended: with the metadata kept, every key of the input image that is
\* in the set of tags to keep and is not one of the three tags the code sets
\* itself (0008|103e, 0028|1050, 0028|1051) has the identical value on the
\* output, and no key outside that set is copied.
C4_KeptTagsCopied ==
    \A i \in KeptSamples :
        /\ \A k \in (GetMetaDataKeys(samples[i].input_image) \cap DICOM_tags_to_keep)
                       \ {"0008|103e", "0028|1050", "0028|1051"} :
              samples[i].result_out[k] = samples[i].input_image[k]
        /\ NothingElseCopied(i)
        /\ fs[samples[i].output].tags = samples[i].result_out

\* an output was written for an image that carries the patient name (kept),
\* a private tag (not kept) and a window center of 400 (kept)
C4_Witness ==
    \E i \in KeptSamples :
        /\ {"0010|0010", "0028|1050"} \subseteq DICOM_tags_to_keep
        /\ "0009|0010" \notin DICOM_tags_to_keep
        /\ samples[i].input_image["0010|0010"] = "400"
        /\ samples[i].input_image["0009|0010"] = "400"
        /\ samples[i].input_image["0028|1050"] = "400"
        /\ samples[i].result_out["0010|0010"] = "400"

----------------------------------------------------------------------------
(* C5 *)

\* C5: with the metadata kept, every written output has window center "1",
\* window width "2" and the fixed series description, whatever the input
\* carried for these tags and whether or not they are tags to keep.
C5_FixedTags ==
    \A i \in KeptSamples :
        /\ samples[i].result_out["0028|1050"] = "1"
        /\ samples[i].result_out["0028|1051"] = "2"
        /\ samples[i].result_out["0008|103e"] = "Created with lungmask"
        /\ fs[samples[i].output].tags["0028|1050"] = "1"
        /\ fs[samples[i].output].tags["0028|1051"] = "2"
        /\ fs[samples[i].output].tags["0008|103e"] = "Created with lungmask"

\* an output was written for an image whose window center, window width and
\* series description are tags to keep and differ from the fixed values
C5_Witness ==
    \E i \in KeptSamples :
        /\ ForcedTags \subseteq DICOM_tags_to_keep
        /\ \A k \in ForcedTags : samples[i].input_image[k] = "400"

----------------------------------------------------------------------------
(* C6 *)

PreconditionFails ==
    \/ ~exists(fs0, args.input)
    \/ args.modelname = "LTRCLobes_R231" /\ args.modelpath # "None"

\* C6: when the input path does not exist, or --modelpath is given with
\* --modelname LTRCLobes_R231, the process never gets past the construction
\* of the inferer: no inferer is constructed, no directory is made, no pool
\* is opened, no sample is processed and the file system stays as it was.
C6_FailFast ==
    PreconditionFails =>
        /\ pc \in {"parse", "construct", "exit"}
        /\ inferer = << >>
        /\ fs = fs0
        /\ samples = << >>
        /\ pool = "none" /\ tasks = << >>
        /\ (pc = "exit" =>
               error = IF exists(fs0, args.input) THEN "AssertionError" ELSE "File not found")

\* the process ended on the assertion, the input being a directory of scans
C6_Witness ==
    /\ pc = "exit" /\ error = "AssertionError"
    /\ DirectoryInput /\ InputFileNames # {}

----------------------------------------------------------------------------
(* C7 *)

\* C7: the batch size the inferer is constructed with is 1 when --cpu is
\* given and the requested --batchsize otherwise, for every model.
C7_BatchSize ==
    inferer # << >> =>
        inferer[1].batch_size = IF args.cpu THEN 1 ELSE args.batchsize

\* the lobes inferer was constructed with --cpu and --batchsize 50
C7_Witness ==
    /\ inferer # << >>
    /\ args.modelname = "LTRCLobes_R231" /\ args.cpu /\ args.batchsize = 50
    /\ inferer[1].batch_size = 1

----------------------------------------------------------------------------
(* C8 *)

\* C8: with a directory input, every --pool value greater than 0 makes the
\* run create a pool of workers to process the files.
C8_PoolForAnyPositive ==
    (DirectoryInput /\ args.pool > 0 /\ pc \in {"submit", "await", "sequential", "done"})
        => pool # "none"

----------------------------------------------------------------------------
(* C9 *)

\* C9: in sequential directory mode the samples are processed in the order
\* of the listing; every sample but the last processed one was written, and
\* when a sample fails the run ends there: no later sample is started and
\* the outputs of the earlier ones are on disk.
C9_SequentialStopsAtFailure ==
    Sequential =>
        /\ Len(samples) <= Len(ListedFiles)
        /\ \A i \in 1..Len(samples) :
              /\ samples[i].input = join(args.input, ListedFiles[i])
              /\ samples[i].output = join(args.output, ListedFiles[i])
        /\ \A i \in 1..(Len(samples) - 1) :
              /\ samples[i].written
              /\ exists(fs, samples[i].output) /\ fs[samples[i].output].kind = "file"
        /\ (samples # << >> /\ ~samples[Len(samples)].written) =>
               pc = "exit" /\ error = "sample failed"
        /\ (pc = "exit") => (samples # << >> /\ ~samples[Len(samples)].written)
        /\ (pc = "done") => Len(samples) = Len(ListedFiles)

\* the first file of the listing failed and the run ended with the second
\* file never started
C9_Witness ==
    /\ Sequential /\ pc = "exit"
    /\ Len(ListedFiles) = 2 /\ Len(samples) = 1

----------------------------------------------------------------------------
(* C10 *)

\* C10 as stated: in pooled directory mode no two tasks write the same path
\* and no task writes a path that any task reads.
C10_Original ==
    Pooled =>
        \A t, u \in 1..Len(tasks) :
            /\ (t # u => tasks[t].output # tasks[u].output)
            /\ tasks[t].output # tasks[u].input

\* C10 amended: in pooled directory mode no two tasks write the same path
\* and no task writes a path that another task reads, so that every task
\* loads its input as it was when the process started; a task writes the
\* path it reads itself exactly when the output directory is the input
\* directory.
C10_DisjointAcrossTasks ==
    Pooled =>
        /\ \A t, u \in 1..Len(tasks) :
              t # u => /\ tasks[t].output # tasks[u].output
                       /\ tasks[t].output # tasks[u].input
        /\ \A t \in 1..Len(tasks) :
              /\ (tasks[t].output = tasks[t].input) <=> (args.output = args.input)
              /\ tasks[t].status \in {"running", "done"} =>
                    tasks[t].input_image
                        = load_input_image(fs0, tasks[t].input, keepmetadata)

\* two tasks have overwritten their own inputs, the output directory being
\* the input directory
C10_Witness ==
    /\ Pooled /\ args.output = args.input
    /\ Len(tasks) = 2
    /\ \A t \in 1..Len(tasks) : tasks[t].status = "done"

====
